---- MODULE Spec2Model ----
(***************************************************************************)
(* TextureAtlasLayout (crates/bevy_sprite/src/texture_atlas_layout.rs).    *)
(*                                                                         *)
(* One layout value is followed from its construction (new_empty or        *)
(* from_grid) through add_texture calls, attachment of the public          *)
(* texture_handles field by a builder, and the queries len, is_empty and   *)
(* get_texture_index.  Vec2 components are f32 values: sums, differences   *)
(* and products round to nearest (ties to even), overflow to an infinity,  *)
(* and inf * 0 and inf - inf are NaN, as in the code.                      *)
(***************************************************************************)
EXTENDS Integers, Sequences, FiniteSets

VARIABLES
    size,             \* TextureAtlasLayout::size
    textures,         \* TextureAtlasLayout::textures
    texture_handles,  \* TextureAtlasLayout::texture_handles
    op,               \* the operation that ran last ("none": nothing constructed yet)
    args,             \* the arguments that operation was called with
    ret               \* the value that operation returned

vars == <<size, textures, texture_handles, op, args, ret>>

layout == <<size, textures, texture_handles>>

----------------------------------------------------------------------------
(* Bounds and input domains *)

MaxColumns == 3
MaxRows == 3
MaxSections == 3

Handles == {"h1", "h2"}

----------------------------------------------------------------------------
(* f32: IEEE 754 binary32 with round-to-nearest, ties-to-even.  A finite
   value is s * m * 2^e with a 24-bit significand m, kept in canonical form
   (m >= 2^23, or e = MinExp for subnormals and zero), so that equal records
   are equal bit patterns; all NaNs are one value. *)

SignificandBits == 24

MinExp == -149

MaxExp == 104

NaN == [k |-> "nan", s |-> 1, m |-> 0, e |-> 0]

Inf(s) == [k |-> "inf", s |-> s, m |-> 0, e |-> 0]

Zero(s) == [k |-> "num", s |-> s, m |-> 0, e |-> MinExp]

RECURSIVE BitLen(_)
BitLen(n) == IF n = 0 THEN 0 ELSE 1 + BitLen(n \div 2)

IsZero(a) == a.k = "num" /\ a.m = 0

IsFinite(a) == a.k = "num"

(* The f32 nearest to s * M * 2^E, for 0 <= M < 2^31. *)
RoundF32(s, M, E) ==
    IF M = 0 THEN Zero(s)
    ELSE LET n == BitLen(M)
             fit == n - SignificandBits
             k == IF E + fit < MinExp THEN MinExp - E ELSE fit
         IN  IF k <= 0
             THEN IF E + k > MaxExp THEN Inf(s)
                  ELSE [k |-> "num", s |-> s, m |-> M * 2^(0 - k), e |-> E + k]
             ELSE IF k > n THEN Zero(s)
             ELSE LET q == M \div 2^k
                      r == M % 2^k
                      half == 2^(k - 1)
                      up == r > half \/ (r = half /\ q % 2 = 1)
                      q1 == IF up THEN q + 1 ELSE q
                      carry == q1 = 2^SignificandBits
                      m1 == IF carry THEN 2^(SignificandBits - 1) ELSE q1
                      e1 == IF carry THEN E + k + 1 ELSE E + k
                  IN  IF m1 = 0 THEN Zero(s)
                      ELSE IF e1 > MaxExp THEN Inf(s)
                      ELSE [k |-> "num", s |-> s, m |-> m1, e |-> e1]

(* An integer as f32: a literal, or a `usize as f32` cast. *)
F(n) == IF n < 0 THEN RoundF32(-1, 0 - n, 0) ELSE RoundF32(1, n, 0)

Jam(q, sticky) == IF sticky /\ q % 2 = 0 THEN q + 1 ELSE q

FNeg(a) == IF a.k = "nan" THEN a ELSE [a EXCEPT !.s = 0 - a.s]

FAdd(a, b) ==
    IF a.k = "nan" \/ b.k = "nan" THEN NaN
    ELSE IF a.k = "inf" THEN (IF b.k = "inf" /\ b.s # a.s THEN NaN ELSE a)
    ELSE IF b.k = "inf" THEN b
    ELSE IF a.m = 0 /\ b.m = 0 THEN Zero(IF a.s = b.s THEN a.s ELSE 1)
    ELSE IF a.m = 0 THEN b
    ELSE IF b.m = 0 THEN a
    ELSE LET hi == IF a.e >= b.e THEN a ELSE b
             lo == IF a.e >= b.e THEN b ELSE a
             d == hi.e - lo.e
             Mh == hi.m * 8
             Ml == IF d >= 28 THEN 1
                   ELSE Jam((lo.m * 8) \div 2^d, (lo.m * 8) % 2^d # 0)
             sum == hi.s * Mh + lo.s * Ml
         IN  IF sum = 0 THEN Zero(1)
             ELSE IF sum < 0 THEN RoundF32(-1, 0 - sum, hi.e - 3)
             ELSE RoundF32(1, sum, hi.e - 3)

FSub(a, b) == FAdd(a, FNeg(b))

FMul(a, b) ==
    IF a.k = "nan" \/ b.k = "nan" THEN NaN
    ELSE IF a.k = "inf" \/ b.k = "inf"
         THEN (IF IsZero(a) \/ IsZero(b) THEN NaN ELSE Inf(a.s * b.s))
    ELSE IF a.m = 0 \/ b.m = 0 THEN Zero(a.s * b.s)
    ELSE LET a1 == a.m \div 4096
             a0 == a.m % 4096
             b1 == b.m \div 4096
             b0 == b.m % 4096
             cross == a1 * b0 + a0 * b1
             low == (cross % 4096) * 4096 + a0 * b0
             H == a1 * b1 + cross \div 4096 + low \div 2^24
             L == low % 2^24
             n == BitLen(H)
             keep == IF n <= 3 THEN 24 ELSE 27 - n
             drop == 24 - keep
         IN  IF H = 0 THEN RoundF32(a.s * b.s, L, a.e + b.e)
             ELSE RoundF32(a.s * b.s,
                           Jam(H * 2^keep + L \div 2^drop, L % 2^drop # 0),
                           a.e + b.e + drop)

(* The comparisons of f32: a NaN compares false with everything and the two
   zeros are equal. *)
AbsLt(a, b) ==
    IF a.k = "inf" THEN FALSE
    ELSE IF b.k = "inf" THEN TRUE
    ELSE a.e < b.e \/ (a.e = b.e /\ a.m < b.m)

FEq(a, b) ==
    /\ a.k # "nan" /\ b.k # "nan"
    /\ (IsZero(a) /\ IsZero(b)) \/ a = b

FLt(a, b) ==
    /\ a.k # "nan" /\ b.k # "nan"
    /\ ~(IsZero(a) /\ IsZero(b))
    /\ IF a.s = 1 /\ b.s = 1 THEN AbsLt(a, b)
       ELSE IF a.s = -1 /\ b.s = -1 THEN AbsLt(b, a)
       ELSE a.s = -1 /\ b.s = 1

FLe(a, b) == FEq(a, b) \/ FLt(a, b)

----------------------------------------------------------------------------
(* bevy_math::Vec2, Rect and Option *)

Vec2(x, y) == [x |-> x, y |-> y]

ZERO == Vec2(F(0), F(0))

VAdd(a, b) == Vec2(FAdd(a.x, b.x), FAdd(a.y, b.y))

VSub(a, b) == Vec2(FSub(a.x, b.x), FSub(a.y, b.y))

VMul(a, b) == Vec2(FMul(a.x, b.x), FMul(a.y, b.y))

Rect(min, max) == [min |-> min, max |-> max]

None == [tag |-> "None"]

Some(v) == [tag |-> "Some", val |-> v]

unwrap_or_default(o) == IF o.tag = "Some" THEN o.val ELSE ZERO

----------------------------------------------------------------------------
(* Inputs *)

VecI(x, y) == Vec2(F(x), F(y))

MaxF32 == [k |-> "num", s |-> 1, m |-> 2^SignificandBits - 1, e |-> MaxExp]

TileVals == {-1, 0, 2}

PadVals == {-1, 0, 1}

TileSizes == {VecI(x, y) : x \in TileVals, y \in TileVals}
                 \cup {Vec2(Inf(1), F(2)), Vec2(MaxF32, F(2))}

Paddings == {None} \cup {Some(VecI(x, y)) : x \in PadVals, y \in PadVals}
                   \cup {Some(Vec2(Inf(1), F(0))), Some(Vec2(MaxF32, F(1)))}

Offsets == {None, Some(VecI(3, -2)), Some(VecI(16777216, 0))}

Dimensions == {VecI(4, 4), VecI(-1, 0)}

AddedRects == {Rect(VecI(0, 0), VecI(1, 1)),
               Rect(VecI(5, 5), VecI(9, 7)),
               Rect(VecI(3, 3), VecI(1, 4))}

HandleMaps == {[h \in {} |-> 0],
               [h \in {"h1"} |-> 1],
               [h \in {"h1", "h2"} |-> IF h = "h1" THEN 2 ELSE 0]}

----------------------------------------------------------------------------
(* from_grid *)

rect_min_skip_offset(tile_size, current_padding, cell, offset) ==
    VMul(VAdd(tile_size, current_padding), cell)

rect_min(tile_size, current_padding, cell, offset) ==
    VAdd(VMul(VAdd(tile_size, current_padding), cell), offset)

grid_rect_swapped(min, tile_size) == Rect(VAdd(min, tile_size), min)

grid_rect(min, tile_size) == Rect(min, VAdd(min, tile_size))

RECURSIVE columns_loop(_, _, _, _, _, _, _)
columns_loop(x, y, acc, tile_size, columns, padding, offset) ==
    IF x >= columns THEN acc
    ELSE LET current_padding ==
                 IF x > 0 THEN [acc.current_padding EXCEPT !.x = padding.x]
                          ELSE acc.current_padding
             cell == Vec2(F(x), F(y))
             min == rect_min(tile_size, current_padding, cell, offset)
         IN  columns_loop(x + 1, y,
                 [sprites |-> Append(acc.sprites, grid_rect(min, tile_size)),
                  current_padding |-> current_padding],
                 tile_size, columns, padding, offset)

RECURSIVE rows_loop(_, _, _, _, _, _, _)
rows_loop(y, acc, tile_size, columns, rows, padding, offset) ==
    IF y >= rows THEN acc
    ELSE LET current_padding ==
                 IF y > 0 THEN [acc.current_padding EXCEPT !.y = padding.y]
                          ELSE acc.current_padding
         IN  rows_loop(y + 1,
                 columns_loop(0, y, [acc EXCEPT !.current_padding = current_padding],
                              tile_size, columns, padding, offset),
                 tile_size, columns, rows, padding, offset)

grid_extent_trailing_padding(tile_size, current_padding, columns, rows) ==
    VMul(VAdd(tile_size, current_padding), Vec2(F(columns), F(rows)))

grid_extent(tile_size, current_padding, columns, rows) ==
    LET grid_size == Vec2(F(columns), F(rows))
    IN  VSub(VMul(VAdd(tile_size, current_padding), grid_size), current_padding)

from_grid_skip_first_row(tile_size, columns, rows, padding_opt, offset_opt) ==
    LET padding == unwrap_or_default(padding_opt)
        offset == unwrap_or_default(offset_opt)
        done == rows_loop(1, [sprites |-> <<>>, current_padding |-> ZERO],
                          tile_size, columns, rows, padding, offset)
    IN  [size |-> grid_extent(tile_size, done.current_padding, columns, rows),
         textures |-> done.sprites,
         texture_handles |-> None]

from_grid_eager_padding(tile_size, columns, rows, padding_opt, offset_opt) ==
    LET padding == unwrap_or_default(padding_opt)
        offset == unwrap_or_default(offset_opt)
        done == rows_loop(0, [sprites |-> <<>>, current_padding |-> padding],
                          tile_size, columns, rows, padding, offset)
    IN  [size |-> grid_extent(tile_size, done.current_padding, columns, rows),
         textures |-> done.sprites,
         texture_handles |-> None]

from_grid_padding_per_axis(tile_size, columns, rows, padding_opt, offset_opt) ==
    LET padding == unwrap_or_default(padding_opt)
        offset == unwrap_or_default(offset_opt)
        done == rows_loop(0, [sprites |-> <<>>, current_padding |-> ZERO],
                          tile_size, columns, rows, padding, offset)
        final == Vec2(IF columns > 1 THEN padding.x ELSE F(0),
                      IF rows > 1 THEN padding.y ELSE F(0))
    IN  [size |-> grid_extent(tile_size, final, columns, rows),
         textures |-> done.sprites,
         texture_handles |-> None]

from_grid(tile_size, columns, rows, padding_opt, offset_opt) ==
    LET padding == unwrap_or_default(padding_opt)
        offset == unwrap_or_default(offset_opt)
        done == rows_loop(0, [sprites |-> <<>>, current_padding |-> ZERO],
                          tile_size, columns, rows, padding, offset)
    IN  [size |-> grid_extent(tile_size, done.current_padding, columns, rows),
         textures |-> done.sprites,
         texture_handles |-> None]

----------------------------------------------------------------------------
(* new_empty, add_texture and the queries *)

new_empty(dimensions) ==
    [size |-> dimensions, texture_handles |-> None, textures |-> <<>>]

push_front(list, rect) == <<rect>> \o list

push(list, rect) == Append(list, rect)

last_index_off_by_one(list) == Len(list)

last_index(list) == Len(list) - 1

len(list) == Len(list)

is_empty_inverted(list) == list # <<>>

is_empty(list) == list = <<>>

get_texture_index_default_zero(handles, texture) ==
    IF handles.tag = "None" THEN None
    ELSE IF texture \in DOMAIN handles.val THEN Some(handles.val[texture])
         ELSE Some(0)

get_texture_index(handles, texture) ==
    IF handles.tag = "None" THEN None
    ELSE IF texture \in DOMAIN handles.val THEN Some(handles.val[texture])
         ELSE None

----------------------------------------------------------------------------
(* The state machine *)

Init ==
    /\ size = ZERO
    /\ textures = <<>>
    /\ texture_handles = None
    /\ op = "none"
    /\ args = <<>>
    /\ ret = <<>>

NewEmpty ==
    /\ op = "none"
    /\ \E dimensions \in Dimensions :
           LET made == new_empty(dimensions)
           IN  /\ size' = made.size
               /\ textures' = made.textures
               /\ texture_handles' = made.texture_handles
               /\ args' = [dimensions |-> dimensions]
    /\ op' = "new_empty"
    /\ ret' = <<>>

FromGrid ==
    /\ op = "none"
    /\ \E tile_size \in TileSizes, columns \in 0..MaxColumns, rows \in 0..MaxRows,
          padding \in Paddings, offset \in Offsets :
           LET made == from_grid(tile_size, columns, rows, padding, offset)
           IN  /\ size' = made.size
               /\ textures' = made.textures
               /\ texture_handles' = made.texture_handles
               /\ args' = [tile_size |-> tile_size, columns |-> columns,
                           rows |-> rows, padding |-> padding, offset |-> offset]
    /\ op' = "from_grid"
    /\ ret' = <<>>

AddTexture ==
    /\ op # "none"
    /\ Len(textures) < MaxSections
    /\ \E rect \in AddedRects :
           /\ textures' = push(textures, rect)
           /\ args' = [rect |-> rect]
    /\ ret' = last_index(textures')
    /\ op' = "add_texture"
    /\ UNCHANGED <<size, texture_handles>>

SetTextureHandles ==
    /\ op # "none"
    /\ \E map \in HandleMaps :
           /\ texture_handles' = Some(map)
           /\ args' = [map |-> map]
    /\ op' = "set_texture_handles"
    /\ ret' = <<>>
    /\ UNCHANGED <<size, textures>>

LenQuery ==
    /\ op # "none"
    /\ ret' = len(textures)
    /\ op' = "len"
    /\ args' = <<>>
    /\ UNCHANGED layout

IsEmptyQuery ==
    /\ op # "none"
    /\ ret' = is_empty(textures)
    /\ op' = "is_empty"
    /\ args' = <<>>
    /\ UNCHANGED layout

GetTextureIndex ==
    /\ op # "none"
    /\ \E texture \in Handles :
           /\ ret' = get_texture_index(texture_handles, texture)
           /\ args' = [texture |-> texture]
    /\ op' = "get_texture_index"
    /\ UNCHANGED layout

Next ==
    \/ NewEmpty
    \/ FromGrid
    \/ AddTexture
    \/ SetTextureHandles
    \/ LenQuery
    \/ IsEmptyQuery
    \/ GetTextureIndex

Spec == Init /\ [][Next]_vars

----------------------------------------------------------------------------
(* Helpers of the properties *)

(* The same f32 value: equal as f32 compares, or both NaN. *)
SameF(a, b) == (a.k = "nan" /\ b.k = "nan") \/ FEq(a, b)

SameVec(a, b) == SameF(a.x, b.x) /\ SameF(a.y, b.y)

FiniteVec(v) == IsFinite(v.x) /\ IsFinite(v.y)

NonNegative(v) == FLe(F(0), v.x) /\ FLe(F(0), v.y)

ValidRect(r) == FLe(r.min.x, r.max.x) /\ FLe(r.min.y, r.max.y)

AllSectionsValid(list) == \A i \in 1..Len(list) : ValidRect(list[i])

(* An integer of magnitude below 2^24, and its value. *)
IsSmallInt(a) ==
    /\ IsFinite(a)
    /\ IsZero(a) \/ (a.e <= 0 /\ a.e > 0 - SignificandBits /\ a.m % 2^(0 - a.e) = 0)

IntOf(a) == IF IsZero(a) THEN 0 ELSE a.s * (a.m \div 2^(0 - a.e))

Abs(n) == IF n < 0 THEN 0 - n ELSE n

(* Every sum, difference and product of the grid on one axis is an integer
   of magnitude at most 2^24, which f32 computes exactly. *)
AxisExact(tile, pad, offset, count) ==
    /\ IsSmallInt(tile) /\ IsSmallInt(pad) /\ IsSmallInt(offset)
    /\ (Abs(IntOf(tile)) + Abs(IntOf(pad))) * (count + 1) + Abs(IntOf(offset))
           <= 2^SignificandBits

AfterFromGrid == op = "from_grid"

GridPadding == unwrap_or_default(args.padding)

GridOffset == unwrap_or_default(args.offset)

(* The cell (x, y) of the grid as the claims describe it, for a padding
   vector pad: min = (tile_size + pad) * (x, y) + offset, max = min + tile_size. *)
CellRect(pad, x, y) ==
    LET min == VAdd(VMul(VAdd(args.tile_size, pad), Vec2(F(x), F(y))), GridOffset)
    IN  Rect(min, VAdd(min, args.tile_size))

SameRect(r, q) == SameVec(r.min, q.min) /\ SameVec(r.max, q.max)

(* The size as the claims describe it, for a padding vector p. *)
SizeFor(p) ==
    VSub(VMul(VAdd(args.tile_size, p), Vec2(F(args.columns), F(args.rows))), p)

----------------------------------------------------------------------------
(* C1 as stated: from_grid indexes cells row-major: for x in 0..columns-1
   and y in 0..rows-1 the section at index y*columns + x has
   min = (tile_size + pad) * (x, y) + offset, with pad.x = padding.x iff
   x > 0 and pad.y = padding.y iff y > 0, and max = min + tile_size. *)
C1_RowMajorCells ==
    AfterFromGrid =>
        \A x \in 0..(args.columns - 1), y \in 0..(args.rows - 1) :
            LET i == y * args.columns + x
                pad == Vec2(IF x > 0 THEN GridPadding.x ELSE F(0),
                            IF y > 0 THEN GridPadding.y ELSE F(0))
            IN  /\ i + 1 <= Len(textures)
                /\ SameRect(textures[i + 1], CellRect(pad, x, y))

(* C1 amended: from_grid indexes cells row-major: the section at index
   y*columns + x has min = (tile_size + pad) * (x, y) + offset and
   max = min + tile_size, where pad.y = padding.y iff y > 0 and
   pad.x = padding.x iff x > 0, or y > 0 and columns > 1: the x accumulator
   is not reset at the start of a row. *)
C1_RowMajorAccumulated ==
    AfterFromGrid =>
        \A x \in 0..(args.columns - 1), y \in 0..(args.rows - 1) :
            LET i == y * args.columns + x
                pad == Vec2(IF x > 0 \/ (y > 0 /\ args.columns > 1)
                                THEN GridPadding.x ELSE F(0),
                            IF y > 0 THEN GridPadding.y ELSE F(0))
            IN  /\ i + 1 <= Len(textures)
                /\ SameRect(textures[i + 1], CellRect(pad, x, y))

C1_Witness ==
    /\ AfterFromGrid
    /\ args.columns = 2 /\ args.rows = 2
    /\ args.tile_size = VecI(2, 2)
    /\ args.padding = Some(Vec2(Inf(1), F(0)))
    /\ args.offset = Some(VecI(3, -2))
    /\ Len(textures) = 4
    /\ textures[3].min = Vec2(NaN, F(0))
    /\ textures[4].min = Vec2(Inf(1), F(0))

(* C2: from_grid produces exactly columns * rows sections, and none when
   columns = 0 or rows = 0. *)
C2_SectionCount ==
    AfterFromGrid =>
        /\ Len(textures) = args.columns * args.rows
        /\ (args.columns = 0 \/ args.rows = 0) => textures = <<>>

C2_Witness ==
    /\ AfterFromGrid
    /\ args.columns = 3 /\ args.rows = 2
    /\ Len(textures) = 6

(* C3 as stated: the size from_grid returns is
   (tile_size + p) * (columns, rows) - p with p.x = padding.x iff columns > 1
   and p.y = padding.y iff rows > 1, each axis decided by its own count. *)
C3_SizePerAxisCount ==
    AfterFromGrid =>
        SameVec(size, SizeFor(Vec2(IF args.columns > 1 THEN GridPadding.x ELSE F(0),
                                   IF args.rows > 1 THEN GridPadding.y ELSE F(0))))

(* C3 amended: the size from_grid returns is
   (tile_size + p) * (columns, rows) - p with p.x = padding.x iff columns > 1
   and rows >= 1 (the x accumulator is set inside the row loop), and
   p.y = padding.y iff rows > 1; with padding = 0 it is
   tile_size * (columns, rows). *)
C3_SizeFromAccumulator ==
    AfterFromGrid =>
        /\ SameVec(size,
                   SizeFor(Vec2(IF args.columns > 1 /\ args.rows >= 1
                                    THEN GridPadding.x ELSE F(0),
                                IF args.rows > 1 THEN GridPadding.y ELSE F(0))))
        /\ (IsZero(GridPadding.x) /\ IsZero(GridPadding.y)) =>
               SameVec(size, VMul(args.tile_size, Vec2(F(args.columns), F(args.rows))))

C3_Witness ==
    /\ AfterFromGrid
    /\ args.columns = 2 /\ args.rows = 0
    /\ args.tile_size = VecI(2, 2)
    /\ args.padding = Some(VecI(1, 1))
    /\ size = VecI(4, 0)

(* C4: add_texture(r) on a layout of n sections returns n; afterwards the
   length is n + 1 and the section at index n is r, whatever r is. *)
C4_AddTextureReturnsIndex ==
    [][op' = "add_texture" =>
          /\ ret' = Len(textures)
          /\ Len(textures') = Len(textures) + 1
          /\ textures'[Len(textures) + 1] = args'.rect]_vars

C4_Witness ==
    /\ op = "add_texture"
    /\ ret = 2
    /\ Len(textures) = 3
    /\ textures[3] = args.rect
    /\ ~ValidRect(args.rect)

(* C5: get_texture_index returns not-found when no mapping is attached,
   not-found when the attached mapping lacks the identity, and the stored
   index when the mapping has it; it leaves size, sections and mapping
   unchanged. *)
C5_GetTextureIndex ==
    [][op' = "get_texture_index" =>
          /\ size' = size /\ textures' = textures
          /\ texture_handles' = texture_handles
          /\ texture_handles.tag = "None" => ret' = None
          /\ (/\ texture_handles.tag = "Some"
              /\ args'.texture \notin DOMAIN texture_handles.val) => ret' = None
          /\ (/\ texture_handles.tag = "Some"
              /\ args'.texture \in DOMAIN texture_handles.val) =>
                 ret' = Some(texture_handles.val[args'.texture])]_vars

C5_Witness ==
    /\ op = "get_texture_index"
    /\ texture_handles.tag = "Some"
    /\ args.texture = "h2"
    /\ args.texture \notin DOMAIN texture_handles.val
    /\ ret = None

(* C6: in every reachable state is_empty() is true iff len() = 0, and len()
   is the number of sections. *)
C6_IsEmptyIffLenZero ==
    /\ is_empty(textures) <=> (len(textures) = 0)
    /\ len(textures) = Cardinality(DOMAIN textures)
    /\ op = "is_empty" => (ret <=> Len(textures) = 0)
    /\ op = "len" => ret = Cardinality(DOMAIN textures)

C6_Witness ==
    /\ op = "is_empty"
    /\ ret = FALSE
    /\ Len(textures) = 2
    /\ texture_handles.tag = "Some"

(* C7 as stated: in every reachable state every section is a valid
   rectangle, min.x <= max.x and min.y <= max.y, whatever arguments
   from_grid and add_texture were given. *)
C7_AllSectionsValid == AllSectionsValid(textures)

(* C7 amended: from sections that are all valid, a step of new_empty, of
   from_grid with finite tile_size, padding and offset, tile_size >= 0 and
   tile_size + padding finite, or of add_texture with a rectangle that has
   min <= max on both axes, leaves every section valid. *)
C7_ValidInputsKeepSectionsValid ==
    [][(/\ AllSectionsValid(textures)
        /\ op' = "from_grid" =>
               /\ FiniteVec(args'.tile_size)
               /\ NonNegative(args'.tile_size)
               /\ FiniteVec(unwrap_or_default(args'.padding))
               /\ FiniteVec(unwrap_or_default(args'.offset))
               /\ FiniteVec(VAdd(args'.tile_size, unwrap_or_default(args'.padding)))
        /\ op' = "add_texture" => ValidRect(args'.rect))
       => AllSectionsValid(textures')]_vars

C7_Witness ==
    /\ op = "add_texture"
    /\ ValidRect(args.rect)
    /\ Len(textures) = 3
    /\ textures[1] \notin AddedRects
    /\ textures[2].min.x = F(16777220)
    /\ AllSectionsValid(textures)

(* C8 as stated: for columns >= 1, rows >= 1 and non-negative tile_size and
   padding, the size from_grid returns is the bounding extent of the grid
   measured from the grid origin: size = (last section's max) - offset, and
   every section lies within [offset, offset + size] on both axes. *)
C8_SizeIsBoundingExtent ==
    (/\ AfterFromGrid
     /\ args.columns >= 1 /\ args.rows >= 1
     /\ NonNegative(args.tile_size)
     /\ NonNegative(GridPadding)) =>
        LET far == VAdd(GridOffset, size)
        IN  /\ SameVec(size, VSub(textures[Len(textures)].max, GridOffset))
            /\ \A i \in 1..Len(textures) :
                   /\ FLe(GridOffset.x, textures[i].min.x)
                   /\ FLe(GridOffset.y, textures[i].min.y)
                   /\ FLe(textures[i].max.x, far.x)
                   /\ FLe(textures[i].max.y, far.y)

(* C8 amended: the same, for integer-valued tile_size, padding and offset
   with (tile_size + padding) * (count + 1) + |offset| <= 2^24 on each axis,
   where every f32 operation of the grid is exact. *)
C8_ExactSizeIsBoundingExtent ==
    (/\ AfterFromGrid
     /\ args.columns >= 1 /\ args.rows >= 1
     /\ NonNegative(args.tile_size)
     /\ NonNegative(GridPadding)
     /\ AxisExact(args.tile_size.x, GridPadding.x, GridOffset.x, args.columns)
     /\ AxisExact(args.tile_size.y, GridPadding.y, GridOffset.y, args.rows)) =>
        LET far == VAdd(GridOffset, size)
        IN  /\ SameVec(size, VSub(textures[Len(textures)].max, GridOffset))
            /\ \A i \in 1..Len(textures) :
                   /\ FLe(GridOffset.x, textures[i].min.x)
                   /\ FLe(GridOffset.y, textures[i].min.y)
                   /\ FLe(textures[i].max.x, far.x)
                   /\ FLe(textures[i].max.y, far.y)

C8_Witness ==
    /\ AfterFromGrid
    /\ args.columns = 3 /\ args.rows = 2
    /\ args.tile_size = VecI(2, 2)
    /\ args.padding = Some(VecI(1, 1))
    /\ args.offset = Some(VecI(3, -2))
    /\ size = VecI(8, 5)
    /\ textures[6].max = VecI(11, 3)

(* C9: the section list is append-only: add_texture leaves size, the
   mapping and every earlier section unchanged, consecutive add_texture
   calls return indices that grow by one, and no step of a constructed
   layout moves or changes a section already in the list. *)
C9_AppendOnly ==
    [][/\ op' = "add_texture" =>
              /\ size' = size
              /\ texture_handles' = texture_handles
              /\ Len(textures') = Len(textures) + 1
              /\ op = "add_texture" => ret' = ret + 1
       /\ op # "none" =>
              \A i \in 1..Len(textures) :
                  i <= Len(textures') /\ textures'[i] = textures[i]]_vars

C9_Witness ==
    /\ op = "add_texture"
    /\ ret = 2
    /\ Len(textures) = 3
    /\ texture_handles.tag = "Some"
    /\ textures[1] # textures[3]

(* C10 as stated: for non-negative tile_size and padding and any columns,
   rows >= 0, both components of the size from_grid returns are
   non-negative; with columns = 0 the x component is 0 and with rows = 0
   the y component is 0. *)
C10_SizeNonNegative ==
    (/\ AfterFromGrid
     /\ NonNegative(args.tile_size)
     /\ NonNegative(GridPadding)) =>
        /\ NonNegative(size)
        /\ args.columns = 0 => FEq(size.x, F(0))
        /\ args.rows = 0 => FEq(size.y, F(0))

(* C10 amended: the same for finite non-negative tile_size and padding: an
   infinite component gives inf * 0 or inf - inf, which is NaN. *)
C10_FiniteSizeNonNegative ==
    (/\ AfterFromGrid
     /\ FiniteVec(args.tile_size) /\ NonNegative(args.tile_size)
     /\ FiniteVec(GridPadding) /\ NonNegative(GridPadding)) =>
        /\ NonNegative(size)
        /\ args.columns = 0 => FEq(size.x, F(0))
        /\ args.rows = 0 => FEq(size.y, F(0))

C10_Witness ==
    /\ AfterFromGrid
    /\ args.columns = 0 /\ args.rows = 3
    /\ args.tile_size = VecI(2, 2)
    /\ args.padding = Some(VecI(1, 1))
    /\ size = VecI(0, 8)

====
